---- MODULE Spec2Model ----
(***************************************************************************)
(* Model of hela's customizable multi-head attention                       *)
(* (approximators/multihead/customizable_multihead.py):                    *)
(*   - CustomizableMultiHeadApproximator: its parameters dict, its list of *)
(*     approximations, get_trainable_approximation,                        *)
(*     get_pretrained_approximation and approximate_module;                *)
(*   - CustomizableMultiHead: construction, train/eval mode and forward;   *)
(*   - _multi_head_attention_forward and the default attention primitives, *)
(*     step by step, with shapes, dtypes and tensor identities concrete    *)
(*     and the floating-point values symbolic.                             *)
(***************************************************************************)
EXTENDS Integers, Sequences, FiniteSets, TLC

VARIABLES
  parameters,      \* the approximator's parameters dict
  approximations,  \* the approximator's list of approximations (adapter ids)
  heap,            \* the adapters constructed so far, by id
  tver,            \* per tensor storage updated in place, the number of updates
  inputs,          \* the tensors and flags the caller passes to forward
  overrides,       \* the parameters dict as given at construction (history)
  last             \* the last call made: what it was given and what it returned

vars == <<parameters, approximations, heap, tver, inputs, overrides, last>>

----------------------------------------------------------------------------
(* Bounds of the model                                                      *)

\* adapters one approximator creates
MaxAdapters == 2
\* in-place updates a tensor receives
MaxVersion == 1
\* target and source sequence lengths of a forward call
MaxLen == 2
\* batch size of a forward call
MaxBatch == 2
\* distinct outcomes of one random dropout draw
MaxNoise == 2
\* masked cells in a mask whose contents are followed
MaxMasked == 1

----------------------------------------------------------------------------
(* Values                                                                   *)

\* an absent dict entry is <<>>, a present one <<v>>
Unset == <<>>
Val(v) == <<v>>
IsSet(e) == Len(e) = 1
Get(e) == e[1]

Fields ==
  {"embed_dim", "num_heads", "batch_first", "dropout", "bias", "add_bias_kv",
   "add_zero_attn", "kdim", "vdim"}

\* parameter names as named_parameters() yields them, split on "."
Names ==
  {<<"in_proj_weight">>, <<"q_proj_weight">>, <<"k_proj_weight">>,
   <<"v_proj_weight">>, <<"in_proj_bias">>, <<"bias_k">>, <<"bias_v">>,
   <<"out_proj", "weight">>, <<"out_proj", "bias">>}

\* a reference to a parameter tensor: its identity and its (immutable) shape,
\* given by the dimensions of the module that created it; None is NoParam
NoParam == [id |-> <<>>, dims |-> <<>>]
Ref(owner, name, cfg) ==
  [id |-> <<owner>> \o name, dims |-> <<cfg.embed_dim, cfg.kdim, cfg.vdim>>]

Cfg(e, h, d, b, bkv, z, bf, k, v) ==
  [embed_dim |-> e, num_heads |-> h, dropout |-> d, bias |-> b,
   add_bias_kv |-> bkv, add_zero_attn |-> z, batch_first |-> bf,
   kdim |-> k, vdim |-> v]

NoCfg == Cfg(0, 0, 0, FALSE, FALSE, FALSE, FALSE, 0, 0)

DefaultFns ==
  [kernel_function |-> "Softmax",
   attention_function |-> "_scaled_dot_product_attention",
   attn_masking_function |-> "_attn_masking",
   query_key_product |-> "_scaled_dot_product",
   attn_mask_value |-> "-inf"]

NoFns ==
  [kernel_function |-> "", attention_function |-> "",
   attn_masking_function |-> "", query_key_product |-> "",
   attn_mask_value |-> ""]

\* the parameters torch.nn.MultiheadAttention.__init__ registers for a config:
\* packed or separate in-projection weights, the biases when bias is set,
\* bias_k/bias_v when add_bias_kv is set
HasParam(cfg, name) ==
  LET same == cfg.kdim = cfg.embed_dim /\ cfg.vdim = cfg.embed_dim
  IN  CASE name = <<"in_proj_weight">> -> same
        [] name \in {<<"q_proj_weight">>, <<"k_proj_weight">>, <<"v_proj_weight">>} -> ~same
        [] name \in {<<"in_proj_bias">>, <<"out_proj", "bias">>} -> cfg.bias
        [] name \in {<<"bias_k">>, <<"bias_v">>} -> cfg.add_bias_kv
        [] OTHER -> TRUE

\* a module object: cls "none" is an unallocated slot
NoModule ==
  [cls |-> "none", cfg |-> NoCfg, prm |-> [n \in Names |-> NoParam],
   training |-> FALSE, fns |-> NoFns, src |-> "none"]

\* nn.MultiheadAttention(**cfg) as object `owner`: fresh parameters, training mode
NewMultiheadAttention(owner, cfg) ==
  [cls |-> "MultiheadAttention", cfg |-> cfg,
   prm |-> [n \in Names |-> IF HasParam(cfg, n) THEN Ref(owner, n, cfg) ELSE NoParam],
   training |-> TRUE, fns |-> NoFns, src |-> "none"]

\* the constructor's assertion "embed_dim must be divisible by num_heads"
CanConstruct(cfg) ==
  cfg.num_heads > 0 /\ (cfg.embed_dim \div cfg.num_heads) * cfg.num_heads = cfg.embed_dim

\* CustomizableMultiHead(**cfg): the parent constructor, then the added attributes
NewCustomizableMultiHead(owner, cfg) ==
  [NewMultiheadAttention(owner, cfg) EXCEPT
     !.cls = "CustomizableMultiHead", !.fns = DefaultFns]

----------------------------------------------------------------------------
(* The objects that exist before the approximator runs                      *)

\* three trained attention layers of different configurations, an object of
\* another class that exposes the same attributes, and one that does not
SourceIds == {"mhaA", "mhaB", "mhaC", "duck", "linear"}

SourceCfg(s) ==
  CASE s = "mhaA" -> Cfg(4, 2, 0, TRUE, FALSE, FALSE, FALSE, 4, 4)
    [] s = "mhaB" -> Cfg(4, 1, 5, FALSE, TRUE, TRUE, TRUE, 4, 4)
    [] s = "mhaC" -> Cfg(2, 1, 0, TRUE, FALSE, FALSE, FALSE, 3, 3)
    [] s = "duck" -> Cfg(4, 2, 0, TRUE, FALSE, FALSE, FALSE, 4, 4)
    [] OTHER -> NoCfg

Source(s) ==
  CASE s \in {"mhaA", "mhaB", "mhaC"} -> NewMultiheadAttention(s, SourceCfg(s))
    [] s = "duck" -> [NewMultiheadAttention(s, SourceCfg(s)) EXCEPT !.cls = "Duck"]
    [] OTHER -> [NoModule EXCEPT !.cls = "Linear"]

\* the object an id denotes
Obj(m) == IF m \in SourceIds THEN Source(m) ELSE heap[m]

\* the number of in-place updates tensor storage t received
Ver(tv, t) == IF t \in DOMAIN tv THEN tv[t] ELSE 0
\* the storages in w updated once more
Bump(tv, w) == [t \in DOMAIN tv \cup w |-> IF t \in w THEN Ver(tv, t) + 1 ELSE tv[t]]

\* isinstance(m, nn.MultiheadAttention): CustomizableMultiHead subclasses it
IsMultiheadAttention(m) == Obj(m).cls \in {"MultiheadAttention", "CustomizableMultiHead"}
IsCustomizableMultiHead(m) == Obj(m).cls = "CustomizableMultiHead"

\* the attributes get_trainable_approximation reads exist on the object
HasAttentionAttributes(m) == Obj(m).cls \in {"MultiheadAttention", "CustomizableMultiHead", "Duck"}

\* module.named_parameters(): the names whose parameter is not None
NamedParameters(mod) == {n \in Names : mod.prm[n] # NoParam}

----------------------------------------------------------------------------
(* Tensors: a dtype, a shape, the storage they are a view of, and for the    *)
(* masks whose contents are followed the elements, as nested sequences of   *)
(* "T"/"F" (bool), "0"/"1" (byte) or "0"/"x"/"-inf" (float); data is <<>>   *)
(* where the contents are not followed                                      *)

NoneT == [dtype |-> "none", shape |-> <<>>, base |-> <<>>, data |-> <<>>]
IsNone(t) == t.dtype = "none"
Tensor(dtype, shape, base) ==
  [dtype |-> dtype, shape |-> shape, base |-> base, data |-> <<>>]
Filled(t, d) == [t EXCEPT !.data = d]
Tracked(t) == t.data # <<>>

\* what an element v becomes when the elements equal to `from` become `to` and
\* all others `other`
RecodeOne(v, from, to, other) == IF v = from THEN to ELSE other
\* every element of nested sequences of depth r recoded
Recode(d, r, from, to, other) ==
  IF r = 1 THEN [i \in DOMAIN d |-> RecodeOne(d[i], from, to, other)]
  ELSE IF r = 2
  THEN [i \in DOMAIN d |-> [j \in DOMAIN d[i] |-> RecodeOne(d[i][j], from, to, other)]]
  ELSE [i \in DOMAIN d |-> [j \in DOMAIN d[i] |->
          [k \in DOMAIN d[i][j] |-> RecodeOne(d[i][j][k], from, to, other)]]]
\* one more element v at the end of every innermost row
AppendCells(d, r, v) ==
  IF r = 1 THEN Append(d, v)
  ELSE IF r = 2 THEN [i \in DOMAIN d |-> Append(d[i], v)]
  ELSE [i \in DOMAIN d |-> [j \in DOMAIN d[i] |-> Append(d[i][j], v)]]
\* the element a tensor of this dtype holds for zero
ZeroOf(dtype) == IF dtype = "bool" THEN "F" ELSE "0"

\* storage allocated during the call
Fresh == <<"fresh">>
\* the storages of the tensors the caller passes to forward
CallerIds == {<<"query">>, <<"key">>, <<"value">>, <<"key_padding_mask">>, <<"attn_mask">>}

Rank(t) == Len(t.shape)
\* x.transpose(1, 0): a view with the first two sizes exchanged
Transpose10(t) ==
  [t EXCEPT !.shape = <<t.shape[2], t.shape[1]>> \o SubSeq(t.shape, 3, Len(t.shape))]
\* x.unsqueeze(i): a view with a size-1 axis inserted before position i (1-based here)
Unsqueeze(t, i) ==
  IF IsNone(t) THEN t
  ELSE [t EXCEPT !.shape = SubSeq(t.shape, 1, i - 1) \o <<1>> \o SubSeq(t.shape, i, Len(t.shape)),
                 !.data = IF Tracked(t) /\ i = 1 THEN <<t.data>> ELSE <<>>]
\* x.squeeze(i): drops axis i when its size is 1
Squeeze(t, i) ==
  IF i <= Len(t.shape) /\ t.shape[i] = 1
  THEN [t EXCEPT !.shape = SubSeq(t.shape, 1, i - 1) \o SubSeq(t.shape, i + 1, Len(t.shape))]
  ELSE t
\* torch.nn.functional.pad(x, (0, 1)): a new tensor, one more column on the last axis
Pad01(t) ==
  IF IsNone(t) THEN t
  ELSE [t EXCEPT !.shape = [t.shape EXCEPT ![Len(t.shape)] = @ + 1], !.base = Fresh,
                 !.data = IF Tracked(t) THEN AppendCells(t.data, Len(t.shape), ZeroOf(t.dtype))
                          ELSE <<>>]
\* x.to(torch.bool): a new tensor
ToBool(t) ==
  [t EXCEPT !.dtype = "bool", !.base = Fresh,
            !.data = IF Tracked(t)
                     THEN Recode(t.data, Len(t.shape), "0", "F", "T")
                     ELSE <<>>]
LastDim(t) == t.shape[Len(t.shape)]

----------------------------------------------------------------------------
(* _multi_head_attention_forward, step by step.                             *)
(* The state threaded through the steps: err is "none" until a step raises, *)
(* ran lists the tensor computations executed so far, warns the warnings    *)
(* emitted, written the storages modified in place.                         *)

Fail(st, kind) == [st EXCEPT !.err = kind]
Ran(st, op) == [st EXCEPT !.ran = Append(@, op)]

EngineStart(e) ==
  [err |-> "none", ran |-> <<>>, warns |-> {}, written |-> {},
   is_batched |-> FALSE,
   query |-> e.query, key |-> e.key, value |-> e.value,
   key_padding_mask |-> e.key_padding_mask, attn_mask |-> e.attn_mask,
   tgt_len |-> 0, bsz |-> 0, embed_dim |-> 0, src_len |-> 0, head_dim |-> 0,
   k_len |-> 0, v_len |-> 0, dropout_p |-> e.dropout_p, called |-> FALSE,
   passed_p |-> 0, passed_mask |-> NoneT, dropped |-> FALSE,
   out_shape |-> <<>>, weights_shape |-> <<>>, has_weights |-> FALSE]

\* torch.nn.functional._mha_shape_check (lines 402-404): ranks only, and for
\* unbatched input the shape of a 3-D attn_mask
MhaShapeCheck(e, st) ==
  LET q == st.query  kpm == st.key_padding_mask  am == st.attn_mask
  IN  IF Rank(q) = 3 THEN
        IF Rank(st.key) # 3 \/ Rank(st.value) # 3 THEN Fail(st, "shape_check_key_value_rank")
        ELSE IF ~IsNone(kpm) /\ Rank(kpm) # 2 THEN Fail(st, "shape_check_key_padding_mask_rank")
        ELSE IF ~IsNone(am) /\ Rank(am) \notin {2, 3} THEN Fail(st, "shape_check_attn_mask_rank")
        ELSE [st EXCEPT !.is_batched = TRUE]
      ELSE IF Rank(q) = 2 THEN
        IF Rank(st.key) # 2 \/ Rank(st.value) # 2 THEN Fail(st, "shape_check_key_value_rank")
        ELSE IF ~IsNone(kpm) /\ Rank(kpm) # 1 THEN Fail(st, "shape_check_key_padding_mask_rank")
        ELSE IF ~IsNone(am) /\ Rank(am) \notin {2, 3} THEN Fail(st, "shape_check_attn_mask_rank")
        ELSE IF ~IsNone(am) /\ Rank(am) = 3
                /\ am.shape # <<e.num_heads, q.shape[1], st.key.shape[1]>>
             THEN Fail(st, "shape_check_attn_mask_3d_shape")
        ELSE [st EXCEPT !.is_batched = FALSE]
      ELSE Fail(st, "shape_check_query_rank")

\* lines 409-415: unbatched input is viewed as a batch of one
UnsqueezeUnbatched(e, st) ==
  IF st.err # "none" \/ st.is_batched THEN st
  ELSE [st EXCEPT !.query = Unsqueeze(@, 2), !.key = Unsqueeze(@, 2),
                  !.value = Unsqueeze(@, 2), !.key_padding_mask = Unsqueeze(@, 1)]

\* lines 417-439: the shape variables and the assertions on them
ShapeValidation(e, st) ==
  IF st.err # "none" THEN st
  ELSE
    LET tgt_len == st.query.shape[1]
        bsz == st.query.shape[2]
        embed_dim == st.query.shape[3]
        src_len == st.key.shape[1]
        head_dim == embed_dim \div e.num_heads
        s1 == [st EXCEPT !.tgt_len = tgt_len, !.bsz = bsz, !.embed_dim = embed_dim,
                         !.src_len = src_len, !.head_dim = head_dim,
                         !.k_len = src_len, !.v_len = st.value.shape[1]]
    IN  IF embed_dim # e.embed_dim_to_check THEN Fail(s1, "embed_dim_mismatch")
        ELSE IF head_dim * e.num_heads # embed_dim THEN Fail(s1, "embed_dim_not_divisible")
        ELSE IF e.use_separate_proj_weight
          THEN IF SubSeq(st.key.shape, 1, 2) # SubSeq(st.value.shape, 1, 2)
               THEN Fail(s1, "key_value_shape") ELSE s1
          ELSE IF st.key.shape # st.value.shape
               THEN Fail(s1, "key_value_shape") ELSE s1

\* a weight [out, in] (or a bias [out]) created for dimensions dims fits a
\* projection from `inp` features to `outp` features
Fits(ref, which, inp, outp) ==
  /\ ref # NoParam
  /\ ref.dims[1] = outp
  /\ ref.dims[which] = inp

\* lines 441-470: the in-projection, packed or with separate weights. The
\* matrix products raise when a weight does not fit its input.
InProjection(e, st) ==
  IF st.err # "none" THEN st
  ELSE
    LET E == st.embed_dim
        biasFits == e.in_proj_bias = NoParam \/ e.in_proj_bias.dims[1] = E
    IN  IF ~e.use_separate_proj_weight THEN
          LET s1 == Ran(st, "in_projection")
          IN  IF Fits(e.in_proj_weight, 1, E, E)
                 /\ LastDim(st.key) = E /\ LastDim(st.value) = E /\ biasFits
              THEN s1 ELSE Fail(s1, "in_projection_error")
        ELSE IF e.q_proj_weight = NoParam THEN Fail(st, "q_proj_weight_missing")
        ELSE IF e.k_proj_weight = NoParam THEN Fail(st, "k_proj_weight_missing")
        ELSE IF e.v_proj_weight = NoParam THEN Fail(st, "v_proj_weight_missing")
        ELSE
          LET s1 == Ran(st, "in_projection")
          IN  IF Fits(e.q_proj_weight, 1, E, E)
                 /\ Fits(e.k_proj_weight, 2, LastDim(st.key), E)
                 /\ Fits(e.v_proj_weight, 3, LastDim(st.value), E) /\ biasFits
              THEN s1 ELSE Fail(s1, "in_projection_error")

\* lines 472-500: the attention mask's dtype, rank and shape
TransposedMaskCheck(e, st) ==
  IF st.err # "none" \/ IsNone(st.attn_mask) THEN st
  ELSE
    LET s1 == IF st.attn_mask.dtype = "uint8"
              THEN [Ran(st, "attn_mask_to_bool") EXCEPT
                      !.warns = @ \cup {"attn_mask_byte_deprecated"},
                      !.attn_mask = ToBool(@)]
              ELSE IF st.attn_mask.dtype \in {"float", "bool"} THEN st
              ELSE Fail(st, "attn_mask_dtype")
        am == s1.attn_mask
    IN  IF s1.err # "none" THEN s1
        ELSE IF Rank(am) = 2 THEN
          IF am.shape # <<st.src_len, st.tgt_len>> THEN Fail(s1, "attn_mask_2d_shape")
          ELSE [s1 EXCEPT !.attn_mask = Unsqueeze(@, 1)]
        ELSE IF Rank(am) = 3 THEN
          IF am.shape # <<st.bsz * e.num_heads, st.src_len, st.tgt_len>>
          THEN Fail(s1, "attn_mask_3d_shape") ELSE s1
        ELSE Fail(s1, "attn_mask_rank")
PrepAttnMask(e, st) ==
  IF st.err # "none" \/ IsNone(st.attn_mask) THEN st
  ELSE
    LET s1 == IF st.attn_mask.dtype = "uint8"
              THEN [Ran(st, "attn_mask_to_bool") EXCEPT
                      !.warns = @ \cup {"attn_mask_byte_deprecated"},
                      !.attn_mask = ToBool(@)]
              ELSE IF st.attn_mask.dtype \in {"float", "bool"} THEN st
              ELSE Fail(st, "attn_mask_dtype")
        am == s1.attn_mask
    IN  IF s1.err # "none" THEN s1
        ELSE IF Rank(am) = 2 THEN
          IF am.shape # <<st.tgt_len, st.src_len>> THEN Fail(s1, "attn_mask_2d_shape")
          ELSE [s1 EXCEPT !.attn_mask = Unsqueeze(@, 1)]
        ELSE IF Rank(am) = 3 THEN
          IF am.shape # <<st.bsz * e.num_heads, st.tgt_len, st.src_len>>
          THEN Fail(s1, "attn_mask_3d_shape") ELSE s1
        ELSE Fail(s1, "attn_mask_rank")

\* lines 502-507: a byte key_padding_mask is converted to bool with a warning
PrepKeyPaddingMask(e, st) ==
  IF st.err # "none" THEN st
  ELSE IF ~IsNone(st.key_padding_mask) /\ st.key_padding_mask.dtype = "uint8"
  THEN [Ran(st, "key_padding_mask_to_bool") EXCEPT
          !.warns = @ \cup {"key_padding_mask_byte_deprecated"},
          !.key_padding_mask = ToBool(@)]
  ELSE st

\* lines 509-521: bias_k and bias_v are appended to the projected key and value,
\* and both masks get one more column
BiasKV(e, st) ==
  IF st.err # "none" THEN st
  ELSE IF e.bias_k # NoParam /\ e.bias_v # NoParam THEN
    IF ~IsNone(e.static_k) THEN Fail(st, "bias_with_static_k")
    ELSE IF ~IsNone(e.static_v) THEN Fail(st, "bias_with_static_v")
    ELSE
      LET s1 == Ran(st, "bias_kv_cat")
      IN  IF e.bias_k.dims[1] # st.embed_dim \/ e.bias_v.dims[1] # st.embed_dim
          THEN Fail(s1, "bias_kv_cat_error")
          ELSE
            LET s2 == [s1 EXCEPT !.k_len = @ + 1, !.v_len = @ + 1]
                s3 == IF IsNone(s2.attn_mask) THEN s2
                      ELSE [Ran(s2, "attn_mask_pad") EXCEPT !.attn_mask = Pad01(@)]
            IN  IF IsNone(s3.key_padding_mask) THEN s3
                ELSE [Ran(s3, "key_padding_mask_pad") EXCEPT !.key_padding_mask = Pad01(@)]
  ELSE IF e.bias_k # NoParam THEN Fail(st, "bias_k_without_bias_v")
  ELSE IF e.bias_v # NoParam THEN Fail(st, "bias_v_without_bias_k")
  ELSE st

\* lines 523-548: q, k, v are viewed as [bsz * num_heads, len, head_dim]; static
\* k and v replace the projected ones after their shape is asserted
ReshapeHeads(e, st) ==
  IF st.err # "none" THEN st
  ELSE
    LET s1 == Ran(st, "reshape_q")
        s2 == IF IsNone(e.static_k) THEN Ran(s1, "reshape_k")
              ELSE IF e.static_k.shape[1] # st.bsz * e.num_heads THEN Fail(s1, "static_k_shape")
              ELSE IF e.static_k.shape[3] # st.head_dim THEN Fail(s1, "static_k_shape")
              ELSE [s1 EXCEPT !.k_len = e.static_k.shape[2]]
    IN  IF s2.err # "none" THEN s2
        ELSE IF IsNone(e.static_v) THEN Ran(s2, "reshape_v")
        ELSE IF e.static_v.shape[1] # st.bsz * e.num_heads THEN Fail(s2, "static_v_shape")
        ELSE IF e.static_v.shape[3] # st.head_dim THEN Fail(s2, "static_v_shape")
        ELSE [s2 EXCEPT !.v_len = e.static_v.shape[2]]

\* lines 550-565: one zero position is appended to k and v, the masks are padded,
\* and src_len becomes the length of k
ZeroAttnUnpaddedMasks(e, st) ==
  IF st.err # "none" THEN st
  ELSE
    LET s3 == IF ~e.add_zero_attn THEN st
              ELSE [Ran(st, "zero_attn_cat") EXCEPT !.k_len = @ + 1, !.v_len = @ + 1]
    IN  [s3 EXCEPT !.src_len = s3.k_len]
ZeroAttn(e, st) ==
  IF st.err # "none" THEN st
  ELSE
    LET s3 == IF ~e.add_zero_attn THEN st
              ELSE
                LET s1 == [Ran(st, "zero_attn_cat") EXCEPT !.k_len = @ + 1, !.v_len = @ + 1]
                    s2 == IF IsNone(s1.attn_mask) THEN s1
                          ELSE [Ran(s1, "attn_mask_pad") EXCEPT !.attn_mask = Pad01(@)]
                IN  IF IsNone(s2.key_padding_mask) THEN s2
                    ELSE [Ran(s2, "key_padding_mask_pad") EXCEPT !.key_padding_mask = Pad01(@)]
    IN  [s3 EXCEPT !.src_len = s3.k_len]

\* the shape two shapes of rank 3 broadcast to (sizes are equal or 1)
Broadcast3(a, b) == [i \in 1..3 |-> IF a[i] = 1 THEN b[i] ELSE a[i]]

\* the batch item that row i of a [bsz * num_heads, ...] tensor belongs to: the
\* rows of one batch item are adjacent (view, expand, reshape of lines 573-577)
RowsPerHeadFirst(i, bsz, num_heads) == ((i - 1) % bsz) + 1
BatchOfRow(i, bsz, num_heads) == ((i - 1) \div num_heads) + 1

\* a [bsz, src_len] mask as [bsz * num_heads, 1, src_len]
ExpandOverHeads(d, bsz, num_heads) ==
  [i \in 1..(bsz * num_heads) |-> <<d[BatchOfRow(i, bsz, num_heads)]>>]

\* the element at [i, l, s] of a rank-3 tensor broadcast over its axes of size 1
At3(d, i, l, s) == d[IF Len(d) = 1 THEN 1 ELSE i][IF Len(d[1]) = 1 THEN 1 ELSE l][s]
\* a.logical_or(b), broadcast to shape
LogicalOr(a, b, shape) ==
  [i \in 1..shape[1] |-> [l \in 1..shape[2] |-> [s \in 1..shape[3] |->
     IF At3(a, i, l, s) = "T" \/ At3(b, i, l, s) = "T" THEN "T" ELSE "F"]]]
\* a.masked_fill(b, v), broadcast to shape
MaskedFill(a, b, shape, v) ==
  [i \in 1..shape[1] |-> [l \in 1..shape[2] |-> [s \in 1..shape[3] |->
     IF At3(b, i, l, s) = "T" THEN v ELSE At3(a, i, l, s)]]]

\* lines 567-583: the key padding mask, expanded over the heads, is merged into
\* the attention mask
MergeMasks(e, st) ==
  IF st.err # "none" \/ IsNone(st.key_padding_mask) THEN st
  ELSE IF st.key_padding_mask.shape # <<st.bsz, st.src_len>>
  THEN Fail(st, "key_padding_mask_shape")
  ELSE
    \* view/expand/reshape: a copy unless there is a single head
    LET kpm == [st.key_padding_mask EXCEPT
                  !.shape = <<st.bsz * e.num_heads, 1, st.src_len>>,
                  !.base = IF e.num_heads = 1 THEN @ ELSE Fresh,
                  !.data = IF Tracked(st.key_padding_mask)
                           THEN ExpandOverHeads(st.key_padding_mask.data, st.bsz, e.num_heads)
                           ELSE <<>>]
        s1 == [Ran(st, "key_padding_mask_expand") EXCEPT !.key_padding_mask = kpm]
        am == s1.attn_mask
        shape == Broadcast3(am.shape, kpm.shape)
        both == Tracked(am) /\ Tracked(kpm)
    IN  IF IsNone(am) THEN [s1 EXCEPT !.attn_mask = kpm]
        ELSE IF am.dtype = "bool"
        THEN [Ran(s1, "logical_or") EXCEPT
                !.attn_mask = Filled(Tensor("bool", shape, Fresh),
                   IF both
                   THEN LogicalOr(am.data, kpm.data, shape)
                   ELSE <<>>)]
        ELSE [Ran(s1, "masked_fill") EXCEPT
                !.attn_mask = Filled(Tensor(am.dtype, shape, Fresh),
                   IF both
                   THEN MaskedFill(am.data, kpm.data, shape, e.fns.attn_mask_value)
                   ELSE <<>>)]

\* lines 585-589: a boolean mask becomes a new float mask, filled in place
KeepBoolMask(e, st) == st
MaskToFloat(e, st) ==
  IF st.err # "none" THEN st
  ELSE IF ~IsNone(st.attn_mask) /\ st.attn_mask.dtype = "bool"
  THEN [Ran(st, "attn_mask_to_float") EXCEPT
          !.attn_mask = Filled(Tensor("float", st.attn_mask.shape, Fresh),
             IF Tracked(st.attn_mask)
             THEN Recode(st.attn_mask.data, 3, "T", e.fns.attn_mask_value, "0")
             ELSE <<>>),
          !.written = @ \cup {Fresh}]
  ELSE st

\* lines 591-593: no dropout outside training
NoGating(e, st) == st
AdjustDropout(e, st) ==
  IF st.err # "none" THEN st
  ELSE IF ~e.training THEN [st EXCEPT !.dropout_p = 0] ELSE st

----------------------------------------------------------------------------
(* The default attention primitives                                         *)

\* _scaled_dot_product (lines 130-144): a new tensor [B, Nt, Ns]
ScaledDotProduct(B, Nt, Ns) == Tensor("float", <<B, Nt, Ns>>, Fresh)

\* a mask can be added in place to attn: each of its sizes is 1 or attn's
AddsTo(mask, attn) ==
  /\ Rank(mask) = Rank(attn)
  /\ \A i \in 1..Rank(attn) : mask.shape[i] \in {1, attn.shape[i]}

\* _attn_masking (lines 147-161): attn += attn_mask, which writes attn's storage
WriteIntoMask(attn, attn_mask) ==
  IF IsNone(attn_mask) THEN [err |-> "none", written |-> {}]
  ELSE IF ~AddsTo(attn, attn_mask) THEN [err |-> "masking_error", written |-> {}]
  ELSE [err |-> "none", written |-> {attn_mask.base}]
AttnMasking(attn, attn_mask) ==
  IF IsNone(attn_mask) THEN [err |-> "none", written |-> {}]
  ELSE IF ~AddsTo(attn_mask, attn) THEN [err |-> "masking_error", written |-> {}]
  ELSE [err |-> "none", written |-> {attn.base}]

\* _scaled_dot_product_attention (lines 164-186) on q [B, Nt, E], k [B, Ns, E],
\* v [B, Nv, E]: product, masking, kernel, dropout when dropout_p > 0, then attn . v
ScaledDotProductAttention(e, st, attn_mask, dropout_p) ==
  LET B == st.bsz * e.num_heads
      attn == ScaledDotProduct(B, st.tgt_len, st.k_len)
      m == AttnMasking(attn, attn_mask)
      s0 == [st EXCEPT !.called = TRUE, !.passed_p = dropout_p, !.passed_mask = attn_mask]
      s1 == Ran(s0, "query_key_product")
  IN  IF m.err # "none" THEN Fail(Ran(s1, "attn_masking"), m.err)
      ELSE
        LET s2 == [Ran(Ran(s1, "attn_masking"), "kernel_function") EXCEPT
                     !.written = @ \cup m.written]
            s3 == IF dropout_p > 0
                  THEN [Ran(s2, "dropout") EXCEPT !.dropped = TRUE] ELSE s2
        IN  IF st.v_len # st.k_len THEN Fail(Ran(s3, "bmm"), "bmm_error")
            ELSE Ran(s3, "bmm")

\* lines 595-608: the attention function is handed q, k, v, the mask and dropout_p
Attention(e, st) ==
  IF st.err # "none" THEN st
  ELSE ScaledDotProductAttention(e, st, st.attn_mask, st.dropout_p)

\* lines 609-610: the heads are put back together and projected
OutProjection(e, st) ==
  IF st.err # "none" THEN st
  ELSE
    LET s1 == Ran(st, "out_projection")
    IN  IF Fits(e.out_proj_weight, 1, st.embed_dim, st.embed_dim)
           /\ (e.out_proj_bias = NoParam \/ e.out_proj_bias.dims[1] = st.embed_dim)
        THEN [s1 EXCEPT !.out_shape = <<st.tgt_len, st.bsz, st.embed_dim>>]
        ELSE Fail(s1, "out_projection_error")

\* lines 612-627: the weights per head or averaged over the heads, and the batch
\* axis removed again for unbatched input
ReduceWeightsKeepBatch(e, st) ==
  IF st.err # "none" THEN st
  ELSE IF e.need_weights THEN
    LET s1 == IF e.average_attn_weights THEN Ran(st, "average_weights") ELSE st
    IN  [s1 EXCEPT !.has_weights = TRUE,
                   !.weights_shape = <<st.bsz, e.num_heads, st.tgt_len, st.src_len>>]
  ELSE st
ReduceWeights(e, st) ==
  IF st.err # "none" THEN st
  ELSE
    LET os == IF st.is_batched THEN st.out_shape
              ELSE Squeeze([shape |-> st.out_shape], 2).shape
    IN  IF e.need_weights THEN
          LET w4 == <<st.bsz, e.num_heads, st.tgt_len, st.src_len>>
              w == IF e.average_attn_weights
                   THEN <<st.bsz, st.tgt_len, st.src_len>> ELSE w4
              s1 == IF e.average_attn_weights THEN Ran(st, "average_weights") ELSE st
          IN  [s1 EXCEPT !.out_shape = os, !.has_weights = TRUE,
                         !.weights_shape = IF st.is_batched THEN w
                                           ELSE Squeeze([shape |-> w], 1).shape]
        ELSE [st EXCEPT !.out_shape = os]

\* _multi_head_attention_forward (lines 325-627)
\* (each intermediate state is bound once it is computed)
MultiHeadAttentionForward(e) ==
  CHOOSE r \in
    {ReduceWeights(e, OutProjection(e, s08)) : s08 \in
    {Attention(e, AdjustDropout(e, s07)) : s07 \in
    {MaskToFloat(e, MergeMasks(e, s06)) : s06 \in
    {ZeroAttn(e, ReshapeHeads(e, s05)) : s05 \in
    {BiasKV(e, s04) : s04 \in
    {PrepKeyPaddingMask(e, PrepAttnMask(e, s03)) : s03 \in
    {InProjection(e, s02) : s02 \in
    {ShapeValidation(e, UnsqueezeUnbatched(e, s01)) : s01 \in
    {MhaShapeCheck(e, EngineStart(e))}}}}}}}}} : TRUE

----------------------------------------------------------------------------
(* CustomizableMultiHead.forward                                            *)

SameEmbedDim(cfg) == cfg.kdim = cfg.embed_dim /\ cfg.vdim = cfg.embed_dim

\* the parameters the computation reads, by role
UsedNames(separate) ==
  (IF separate THEN {<<"q_proj_weight">>, <<"k_proj_weight">>, <<"v_proj_weight">>}
   ELSE {<<"in_proj_weight">>})
  \cup {<<"in_proj_bias">>, <<"bias_k">>, <<"bias_v">>,
        <<"out_proj", "weight">>, <<"out_proj", "bias">>}

NoValue ==
  [num_heads |-> 0, batch_first |-> FALSE, zero_attn |-> FALSE, separate |-> FALSE,
   used |-> [n \in Names |-> [id |-> <<>>, ver |-> 0]],
   mask |-> NoneT, dropout_p |-> 0, noise |-> 0, src_len |-> 0, fns |-> NoFns]

\* what the floating-point result is a function of (the inputs aside): the
\* configuration the computation ran with, the parameter tensors it read and
\* their contents, the mask and dropout rate handed to the attention function
\* and the dropout draw
Value(mod, e, st, tv, noise) ==
  [num_heads |-> e.num_heads, batch_first |-> mod.cfg.batch_first,
   zero_attn |-> e.add_zero_attn, separate |-> e.use_separate_proj_weight,
   used |-> [n \in Names |->
               IF n \in UsedNames(e.use_separate_proj_weight) /\ mod.prm[n] # NoParam
               THEN [id |-> mod.prm[n].id, ver |-> Ver(tv, mod.prm[n].id)]
               ELSE [id |-> <<>>, ver |-> 0]],
   mask |-> [st.passed_mask EXCEPT !.base = <<>>],
   dropout_p |-> st.passed_p, noise |-> IF st.dropped THEN noise ELSE 0,
   src_len |-> st.src_len, fns |-> e.fns]

NoResult ==
  [err |-> "none", ran |-> <<>>, warns |-> {}, written |-> {}, called |-> FALSE,
   passed_p |-> 0, passed_mask |-> NoneT, dropped |-> FALSE,
   out_shape |-> <<>>, has_weights |-> FALSE, weights_shape |-> <<>>,
   value |-> NoValue]

\* forward (lines 247-322): batch-first input is transposed, the engine is called
\* with the module's attributes, the output is transposed back
ModuleForward(mod, a, tv, noise) ==
  LET is_batched == Rank(a.query) = 3
      swap == mod.cfg.batch_first /\ is_batched
      separate == ~SameEmbedDim(mod.cfg)
      e == [query |-> IF swap THEN Transpose10(a.query) ELSE a.query,
            key |-> IF swap THEN Transpose10(a.key) ELSE a.key,
            value |-> IF swap THEN Transpose10(a.value) ELSE a.value,
            embed_dim_to_check |-> mod.cfg.embed_dim,
            num_heads |-> mod.cfg.num_heads,
            in_proj_weight |-> mod.prm[<<"in_proj_weight">>],
            in_proj_bias |-> mod.prm[<<"in_proj_bias">>],
            bias_k |-> mod.prm[<<"bias_k">>],
            bias_v |-> mod.prm[<<"bias_v">>],
            add_zero_attn |-> mod.cfg.add_zero_attn,
            dropout_p |-> mod.cfg.dropout,
            out_proj_weight |-> mod.prm[<<"out_proj", "weight">>],
            out_proj_bias |-> mod.prm[<<"out_proj", "bias">>],
            training |-> mod.training,
            key_padding_mask |-> a.key_padding_mask,
            need_weights |-> a.need_weights,
            attn_mask |-> a.attn_mask,
            use_separate_proj_weight |-> separate,
            q_proj_weight |-> IF separate THEN mod.prm[<<"q_proj_weight">>] ELSE NoParam,
            k_proj_weight |-> IF separate THEN mod.prm[<<"k_proj_weight">>] ELSE NoParam,
            v_proj_weight |-> IF separate THEN mod.prm[<<"v_proj_weight">>] ELSE NoParam,
            static_k |-> NoneT, static_v |-> NoneT,
            average_attn_weights |-> a.average_attn_weights,
            fns |-> mod.fns]
  IN  CHOOSE r \in
       {[err |-> st.err, ran |-> st.ran, warns |-> st.warns, written |-> st.written,
         called |-> st.called, passed_p |-> st.passed_p, passed_mask |-> st.passed_mask,
         dropped |-> st.dropped,
         out_shape |-> IF st.err = "none" /\ swap
                       THEN Transpose10([shape |-> st.out_shape]).shape ELSE st.out_shape,
         has_weights |-> st.has_weights, weights_shape |-> st.weights_shape,
         value |-> IF st.err = "none" THEN Value(mod, e, st, tv, noise) ELSE NoValue] :
        st \in {MultiHeadAttentionForward(e)}} : TRUE

----------------------------------------------------------------------------
(* The caller's inputs                                                      *)

\* query, key, value for a module of configuration c, in the layout the module
\* expects; the masks by kind
AttnMaskShape(kind, c, batched, L, S, N) ==
  LET BH == (IF batched THEN N ELSE 1) * c.num_heads
  IN  CASE kind = "2d" -> <<L, S>>
        [] kind = "2d_tgt" -> <<L + 1, S>>
        [] kind = "2d_src" -> <<L, S + 1>>
        [] kind = "3d" -> <<BH, L, S>>
        [] kind = "3d_bad" -> <<BH + 1, L, S>>
        [] kind = "1d" -> <<S>>
        [] OTHER -> <<1, BH, L, S>>

AttnMaskKinds == {"2d", "2d_tgt", "2d_src", "3d", "3d_bad", "1d", "4d"}

AttnMasks(c, batched, L, S, N) ==
  {NoneT}
  \cup {Tensor(d, AttnMaskShape(k, c, batched, L, S, N), <<"attn_mask">>) :
          d \in {"bool", "float", "uint8"}, k \in AttnMaskKinds}
  \cup {Tensor("int64", <<L, S>>, <<"attn_mask">>)}

KeyPaddingMasks(batched, S, N) ==
  LET ok == IF batched THEN <<N, S>> ELSE <<S>>
      bad == IF batched THEN <<N, S + 1>> ELSE <<S + 1>>
  IN  {NoneT, Tensor("bool", ok, <<"key_padding_mask">>),
       Tensor("uint8", ok, <<"key_padding_mask">>),
       Tensor("bool", bad, <<"key_padding_mask">>)}

Layout(c, batched, len, N, feat) ==
  IF ~batched THEN <<len, feat>>
  ELSE IF c.batch_first THEN <<N, len, feat>> ELSE <<len, N, feat>>

MkInputs(c, batched, L, S, N, defect, kpm, am, nw, avg) ==
  [query |-> Tensor("float",
       Layout(c, batched, L, N, IF defect = "embed" THEN c.embed_dim + 1 ELSE c.embed_dim),
       <<"query">>),
   key |-> Tensor("float", Layout(c, batched, S, N, c.kdim), <<"key">>),
   value |-> Tensor("float",
       Layout(c, batched, IF defect = "value_len" THEN S + 1 ELSE S, N, c.vdim),
       <<"value">>),
   key_padding_mask |-> kpm, attn_mask |-> am,
   need_weights |-> nw, average_attn_weights |-> avg]

\* the calls of one geometry: every pair of masks on well-formed query, key and
\* value; and a defect in the query's embedding size or the value's length, or
\* none, with a few masks and every choice of the returned weights
InputsFor(c, batched, L, S, N) ==
  {MkInputs(c, batched, L, S, N, "none", kpm, am, TRUE, TRUE) :
     kpm \in KeyPaddingMasks(batched, S, N),
     am \in AttnMasks(c, batched, L, S, N)}
  \cup
  {MkInputs(c, batched, L, S, N, defect, kpm, am, w[1], w[2]) :
     defect \in {"none", "embed", "value_len"},
     kpm \in {NoneT, Tensor("bool", IF batched THEN <<N, S>> ELSE <<S>>, <<"key_padding_mask">>)},
     am \in {NoneT, Tensor("bool", <<L, S>>, <<"attn_mask">>),
             Tensor("float", <<L + 1, S>>, <<"attn_mask">>)},
     w \in {<<TRUE, TRUE>>, <<TRUE, FALSE>>, <<FALSE, TRUE>>}}

\* every call the forward model is exercised on, for a module of configuration c
AllInputs(c) ==
  UNION {InputsFor(c, g[1], L, S, g[2]) :
           g \in {<<FALSE, 1>>} \cup {<<TRUE, n>> : n \in 1..MaxBatch},
           L \in 1..MaxLen, S \in 1..MaxLen}

\* the subsets of X of at most k elements
RECURSIVE UpTo(_, _)
UpTo(X, k) ==
  IF k = 0 THEN {{}}
  ELSE LET P == UpTo(X, k - 1) IN P \cup {p \cup {x} : p \in P, x \in X}

\* the element a mask of this dtype holds where it masks (for a float mask, some
\* additive value)
OneOf(dtype) == IF dtype = "bool" THEN "T" ELSE IF dtype = "uint8" THEN "1" ELSE "x"

\* a [R, C] mask of dtype with the cells of set masked
Data2(R, C, set, dtype) ==
  [i \in 1..R |-> [j \in 1..C |-> IF <<i, j>> \in set THEN OneOf(dtype) ELSE ZeroOf(dtype)]]

\* the patterns of a [R, C] mask: at most MaxMasked cells masked
Patterns(R, C) == UpTo((1..R) \X (1..C), MaxMasked)

\* key padding masks with their contents: [N, S], or [S] for unbatched input
KeyPaddingMaskContents(batched, S, N) ==
  {NoneT}
  \cup {Filled(Tensor(d, IF batched THEN <<N, S>> ELSE <<S>>, <<"key_padding_mask">>),
               IF batched THEN Data2(N, S, set, d) ELSE Data2(1, S, set, d)[1]) :
          d \in {"bool", "uint8"}, set \in Patterns(N, S)}

\* attention masks with their contents: 2-D [L, S] of each dtype, and 3-D
\* [B, L, S] whose pattern is in one row, the other rows masking nothing
AttnMaskContents(c, batched, L, S, N) ==
  LET B == (IF batched THEN N ELSE 1) * c.num_heads
  IN  {NoneT}
      \cup {Filled(Tensor(d, <<L, S>>, <<"attn_mask">>), Data2(L, S, set, d)) :
              d \in {"bool", "uint8", "float"}, set \in Patterns(L, S)}
      \cup {Filled(Tensor(d, <<B, L, S>>, <<"attn_mask">>),
                   [b \in 1..B |-> Data2(L, S, IF b = row THEN set ELSE {}, d)]) :
              d \in {"bool", "float"}, set \in Patterns(L, S), row \in 1..B}

\* the geometries <<batched, N, L, S>> of the calls whose masks are followed
MaskGeometries ==
  {<<FALSE, 1, 2, 2>>, <<TRUE, 1, 1, 1>>, <<TRUE, 2, 1, 2>>,
   <<TRUE, 2, 2, 1>>, <<TRUE, 2, 2, 2>>, <<TRUE, 3, 1, 1>>}

\* well-formed calls with every pair of masks and their contents
MaskInputs(c) ==
  UNION {{MkInputs(c, g[1], g[3], g[4], g[2], "none", kpm, am, TRUE, TRUE) :
            kpm \in KeyPaddingMaskContents(g[1], g[4], g[2]),
            am \in AttnMaskContents(c, g[1], g[3], g[4], g[2])} :
         g \in MaskGeometries}

\* the well-formed call the approximator's adapters are exercised on
FewInputs(c) ==
  {MkInputs(c, TRUE, MaxLen, MaxLen, 1, "none", NoneT,
            Tensor("bool", <<MaxLen, MaxLen>>, <<"attn_mask">>), TRUE, TRUE)}

----------------------------------------------------------------------------
(* State                                                                    *)

AdapterNames == <<"ad1", "ad2", "ad3">>
Allocated == DOMAIN heap
Modules == SourceIds \cup Allocated

NoInputs ==
  [query |-> NoneT, key |-> NoneT, value |-> NoneT, key_padding_mask |-> NoneT,
   attn_mask |-> NoneT, need_weights |-> FALSE, average_attn_weights |-> FALSE]

\* a call: the operation, the module it was given, the module it returned, the
\* error it raised, and (history) whether it repeats the call before it
NoCall ==
  [op |-> "none", target |-> "none", ret |-> "none", err |-> "none",
   again |-> FALSE, training |-> FALSE, res |-> NoResult]

Call(op, target, ret, err) ==
  [NoCall EXCEPT !.op = op, !.target = target, !.ret = ret, !.err = err,
                 !.again = (last.op = op /\ last.target = target)]

NoOverrides == [f \in Fields |-> Unset]
Override(f, v) == [NoOverrides EXCEPT ![f] = Val(v)]

\* the parameters dicts an approximator is constructed with (lines 31-40)
ParameterChoices ==
  {NoOverrides, Override("num_heads", 1), Override("bias", TRUE),
   Override("num_heads", 3)}

\* the configurations a CustomizableMultiHead is constructed with directly
ConfigChoices ==
  {SourceCfg("mhaA"), SourceCfg("mhaB"), SourceCfg("mhaC"),
   Cfg(4, 2, 5, TRUE, FALSE, TRUE, FALSE, 4, 4),
   Cfg(4, 2, 0, TRUE, TRUE, FALSE, TRUE, 4, 4),
   Cfg(4, 1, 5, FALSE, FALSE, FALSE, FALSE, 4, 4)}

----------------------------------------------------------------------------
(* CustomizableMultiHeadApproximator                                        *)

\* the attribute of the source layer each parameters entry defaults to
\* (lines 73-95): bias and add_bias_kv are read off the parameters' presence
SourceAttribute(mod, f) ==
  CASE f = "bias" -> mod.prm[<<"in_proj_bias">>] # NoParam
    [] f = "add_bias_kv" -> mod.prm[<<"bias_k">>] # NoParam
    [] OTHER -> mod.cfg[f]

\* self.parameters[f] = self.parameters.get(f, <attribute of the source>)
FillParameters(params, mod) ==
  [f \in Fields |-> IF IsSet(params[f]) THEN params[f] ELSE Val(SourceAttribute(mod, f))]

ConfigOf(params) == [f \in Fields |-> Get(params[f])]

\* lines 99-106: every named parameter of the source is set on the new module,
\* on its out_proj for a two-part name, on the module itself for a one-part name
LoadTopLevelOnly(new, mod) ==
  [new EXCEPT !.prm = [n \in Names |->
     IF n \in NamedParameters(mod) /\ Len(n) = 1 THEN mod.prm[n] ELSE new.prm[n]]]
LoadWeights(new, mod) ==
  [new EXCEPT !.prm = [n \in Names |->
     IF n \in NamedParameters(mod) /\ Len(n) \in {1, 2} THEN mod.prm[n] ELSE new.prm[n]]]

\* get_trainable_approximation (lines 63-109)
GetTrainableApproximation(m, op) ==
  /\ Len(approximations) < MaxAdapters
  /\ IF ~HasAttentionAttributes(m) THEN
       \* original_multihead.embed_dim raises before anything is assigned
       /\ last' = Call(op, m, "none", "AttributeError")
       /\ UNCHANGED <<parameters, approximations, heap>>
     ELSE
       LET filled == FillParameters(parameters, Obj(m))
           id == AdapterNames[Len(approximations) + 1]
           new == NewCustomizableMultiHead(id, ConfigOf(filled))
       IN  /\ parameters' = filled
           /\ IF ~CanConstruct(ConfigOf(filled)) THEN
                /\ last' = Call(op, m, "none", "AssertionError")
                /\ UNCHANGED <<approximations, heap>>
              ELSE
                /\ heap' = heap @@ (id :> [LoadWeights(new, Obj(m)) EXCEPT !.src = m])
                /\ approximations' = Append(approximations, id)
                /\ last' = Call(op, m, id, "none")
  /\ UNCHANGED <<tver, inputs, overrides>>

\* lines 125-127: the module itself, or ValueError for any other class
ReturnAnyModule(m) == [ret |-> m, err |-> "none"]
PretrainedResult(m) ==
  IF ~IsCustomizableMultiHead(m) THEN [ret |-> "none", err |-> "ValueError"]
  ELSE [ret |-> m, err |-> "none"]

\* get_pretrained_approximation (lines 111-127)
GetPretrainedApproximation(m, op) ==
  /\ last' = Call(op, m, PretrainedResult(m).ret, PretrainedResult(m).err)
  /\ UNCHANGED <<parameters, approximations, heap, tver, inputs, overrides>>

\* approximate_module (lines 42-61); m is getattr(model, id)
ApproximateModule(m, pretrained) ==
  IF pretrained THEN GetPretrainedApproximation(m, "approximate_module_pretrained")
  ELSE GetTrainableApproximation(m, "approximate_module_trainable")

----------------------------------------------------------------------------
(* CustomizableMultiHead                                                    *)

\* nn.Module.train() / eval() on an adapter that is in the other mode
SetTraining(a, mode) ==
  /\ heap[a].cls = "CustomizableMultiHead"
  /\ heap[a].training # mode
  /\ heap' = [heap EXCEPT ![a].training = mode]
  /\ last' = Call(IF mode THEN "train" ELSE "eval", a, "none", "none")
  /\ UNCHANGED <<parameters, approximations, tver, inputs, overrides>>

\* forward on the caller's inputs; noise is the draw dropout makes when it runs
Forward(a) ==
  /\ heap[a].cls = "CustomizableMultiHead"
  /\ \E r \in {ModuleForward(heap[a], inputs, tver, 0)} :
     LET w == r.written \ {Fresh}
     IN  /\ \A t \in w : Ver(tver, t) < MaxVersion
         /\ tver' = Bump(tver, w)
         /\ \E noise \in IF r.dropped THEN 1..MaxNoise ELSE {0} :
              last' = [Call("forward", a, "none", r.err) EXCEPT
                         !.training = heap[a].training,
                         !.res = [r EXCEPT !.value.noise = noise]]
  /\ UNCHANGED <<parameters, approximations, heap, inputs, overrides>>

\* an optimizer step on the model that holds the adapters updates, in place,
\* every parameter the adapters expose
OptimizerStep ==
  LET ids == UNION {{heap[a].prm[n].id : n \in NamedParameters(heap[a])} : a \in Allocated}
  IN  /\ ids # {}
      /\ \A t \in ids : Ver(tver, t) < MaxVersion
      /\ tver' = Bump(tver, ids)
      /\ last' = Call("optimizer_step", "none", "none", "none")
      /\ UNCHANGED <<parameters, approximations, heap, inputs, overrides>>

----------------------------------------------------------------------------
(* Specifications                                                           *)

\* an approximator with its parameters, the pre-existing layers, no adapter yet
Init ==
  /\ parameters \in ParameterChoices
  /\ overrides = parameters
  /\ approximations = <<>>
  /\ heap = <<>>
  /\ tver = <<>>
  /\ inputs \in FewInputs(SourceCfg("mhaA"))
  /\ last = NoCall

Next ==
  \/ \E m \in SourceIds : GetTrainableApproximation(m, "get_trainable_approximation")
  \/ \E m \in Modules : GetPretrainedApproximation(m, "get_pretrained_approximation")
  \/ \E m \in SourceIds : ApproximateModule(m, FALSE)
  \/ \E m \in Modules : ApproximateModule(m, TRUE)
  \/ OptimizerStep

Spec == Init /\ [][Next]_vars

\* the approximator's adapters called
NextRoundTrip ==
  \/ \E m \in SourceIds : GetTrainableApproximation(m, "get_trainable_approximation")
  \/ \E a \in Allocated, mode \in BOOLEAN : SetTraining(a, mode)
  \/ \E a \in Allocated : Forward(a)

SpecRoundTrip == Init /\ [][NextRoundTrip]_vars

\* one adapter constructed directly, and one call's inputs
InitForward ==
  /\ parameters = NoOverrides
  /\ overrides = parameters
  /\ approximations = <<>>
  /\ \E c \in ConfigChoices :
       /\ heap = (AdapterNames[1] :> NewCustomizableMultiHead(AdapterNames[1], c))
       /\ inputs \in AllInputs(c)
  /\ tver = <<>>
  /\ last = NoCall

NextForward ==
  \/ \E a \in Allocated, mode \in BOOLEAN : SetTraining(a, mode)
  \/ \E a \in Allocated : Forward(a)

SpecForward == InitForward /\ [][NextForward]_vars

\* the configurations of the adapters whose masks are followed: two heads; one
\* head with bias_k/bias_v, zero attention and batch-first input; two heads with
\* zero attention
MaskConfigs ==
  {SourceCfg("mhaA"), Cfg(4, 1, 0, FALSE, TRUE, TRUE, TRUE, 4, 4),
   Cfg(4, 2, 0, TRUE, FALSE, TRUE, FALSE, 4, 4)}

\* one adapter constructed directly, and one call's inputs with mask contents
InitMask ==
  /\ parameters = NoOverrides
  /\ overrides = parameters
  /\ approximations = <<>>
  /\ \E c \in MaskConfigs :
       /\ heap = (AdapterNames[1] :> NewCustomizableMultiHead(AdapterNames[1], c))
       /\ inputs \in MaskInputs(c)
  /\ tver = <<>>
  /\ last = NoCall

SpecMask == InitMask /\ [][NextForward]_vars

----------------------------------------------------------------------------
(* Claims                                                                   *)

TrainableOps == {"get_trainable_approximation", "approximate_module_trainable"}
PretrainedOps == {"get_pretrained_approximation", "approximate_module_pretrained"}

\* C1: every adapter get_trainable_approximation returned has, in each field
\* that was not supplied in the approximator's parameters at construction, the
\* value of the source layer passed to the call that created it, on the second
\* and later calls too.
C1_ConfigMirrorsSource ==
  \A a \in Allocated :
    heap[a].src # "none" =>
      \A f \in Fields :
        ~IsSet(overrides[f]) => heap[a].cfg[f] = SourceAttribute(Obj(heap[a].src), f)

\* C2: every parameter the source layer exposes is, in the adapter extracted
\* from it, the same tensor (same storage) under the same name, so an in-place
\* update made through either is read through both.
C2_WeightsAliased ==
  \A a \in Allocated :
    heap[a].src # "none" =>
      \A n \in NamedParameters(Obj(heap[a].src)) :
        /\ heap[a].prm[n] = Obj(heap[a].src).prm[n]
        /\ Ver(tver, heap[a].prm[n].id) = Ver(tver, Obj(heap[a].src).prm[n].id)

\* an adapter extracted from the layer with separate projection weights, after
\* an optimizer step on the adapter
C2_Witness ==
  \E a \in Allocated :
    /\ heap[a].src = "mhaC"
    /\ heap[a].prm[<<"q_proj_weight">>].id = <<"mhaC", "q_proj_weight">>
    /\ Ver(tver, <<"mhaC", "q_proj_weight">>) > 0
    /\ Ver(tver, <<"mhaC", "out_proj", "bias">>) > 0

\* the errors _multi_head_attention_forward raises from its own validation
ValidationErrors ==
  {"shape_check_query_rank", "shape_check_key_value_rank",
   "shape_check_key_padding_mask_rank", "shape_check_attn_mask_rank",
   "shape_check_attn_mask_3d_shape", "embed_dim_mismatch", "embed_dim_not_divisible",
   "key_value_shape", "q_proj_weight_missing", "k_proj_weight_missing",
   "v_proj_weight_missing", "attn_mask_dtype", "attn_mask_2d_shape",
   "attn_mask_3d_shape", "attn_mask_rank", "bias_with_static_k", "bias_with_static_v",
   "bias_k_without_bias_v", "bias_v_without_bias_k", "static_k_shape",
   "static_v_shape", "key_padding_mask_shape"}

\* C3: when forward raises a validation error, no computation step (in-projection,
\* conversion, concatenation, padding, reshape) has been executed.
C3_ValidationBeforeComputation ==
  (last.op = "forward" /\ last.err \in ValidationErrors) => last.res.ran = <<>>

\* the source layer's own forward on the same inputs, in the same mode and with
\* the same dropout draw
ReferenceForward(src, training, noise) ==
  LET r == ModuleForward([Source(src) EXCEPT !.training = training, !.fns = DefaultFns],
                         inputs, tver, 0)
  IN  IF r.err = "none" THEN [r EXCEPT !.value.noise = IF r.dropped THEN noise ELSE 0]
      ELSE r

\* C4: with no parameter overrides, forward on an adapter extracted from a layer
\* returns what the layer's forward returns on the same inputs: the same
\* output and attention weights (shapes and values), or the same error.
C4_RoundTrip ==
  (/\ last.op = "forward"
   /\ overrides = NoOverrides
   /\ heap[last.target].src \in {"mhaA", "mhaB", "mhaC"})
  => LET ref == ReferenceForward(heap[last.target].src, last.training,
                                 last.res.value.noise)
     IN  /\ last.res.err = ref.err
         /\ last.res.out_shape = ref.out_shape
         /\ last.res.has_weights = ref.has_weights
         /\ last.res.weights_shape = ref.weights_shape
         /\ last.res.value = ref.value

\* C5: get_trainable_approximation on an object that is not a multi-head
\* attention layer raises, and returns (and appends) no adapter.
C5_RejectsNonAttention ==
  (last.op \in TrainableOps /\ ~IsMultiheadAttention(last.target))
  => (last.err # "none" /\ last.ret = "none")

\* C6: get_pretrained_approximation, and approximate_module with pretrained set,
\* return the module they were given when it is a CustomizableMultiHead and
\* raise the type-mismatch error (ValueError) otherwise, and leave the
\* approximator's parameters and approximations as they were.
C6_PretrainedPassthrough ==
  [][last'.op \in PretrainedOps =>
       /\ parameters' = parameters
       /\ approximations' = approximations
       /\ heap' = heap
       /\ IF IsCustomizableMultiHead(last'.target)
          THEN last'.ret = last'.target /\ last'.err = "none"
          ELSE last'.ret = "none" /\ last'.err = "ValueError"]_vars

\* approximate_module(pretrained=True) handed back the adapter it was given,
\* on an approximator whose parameters an earlier extraction had filled
C6_Witness ==
  /\ last.op = "approximate_module_pretrained"
  /\ last.ret \in Allocated
  /\ last.ret = last.target
  /\ Len(approximations) = 1
  /\ IsSet(parameters["embed_dim"])

\* C7: a forward call made in evaluation mode hands dropout probability 0 to
\* the attention function whatever the configured rate, and dropout runs on the
\* weights only in a call made in training mode with a configured rate above 0.
C7_DropoutGating ==
  (last.op = "forward" /\ last.res.called) =>
    /\ ~last.training =>
         /\ last.res.passed_p = 0
         /\ ~last.res.dropped
         /\ \A i \in DOMAIN last.res.ran : last.res.ran[i] # "dropout"
    /\ last.res.dropped => (last.training /\ heap[last.target].cfg.dropout > 0)

\* a completed evaluation-mode call on an adapter configured with dropout, made
\* after the adapter had been in training mode
C7_Witness ==
  /\ last.op = "forward"
  /\ ~last.training
  /\ last.err = "none"
  /\ last.res.called
  /\ heap[last.target].cfg.dropout > 0

\* C8: two forward calls in a row on the same adapter in evaluation mode, on the
\* same inputs, return the same output and attention weights, whatever the
\* configured dropout rate.
C8_Idempotence ==
  [][(/\ last.op = "forward" /\ last'.op = "forward"
      /\ last'.target = last.target
      /\ ~last.training /\ ~last'.training
      /\ inputs' = inputs)
     => last'.res = last.res]_vars

\* the second of two completed evaluation-mode calls that returned weights, on an
\* adapter configured with dropout
C8_Witness ==
  /\ last.op = "forward"
  /\ last.again
  /\ ~last.training
  /\ last.err = "none"
  /\ last.res.has_weights
  /\ heap[last.target].cfg.dropout > 0

\* C9: a forward call, returning or raising, leaves the adapter (configuration,
\* parameters, attn_mask_value, training flag, pluggable functions) and the
\* contents of every parameter and of the caller's tensors as they were; the
\* only storage written in place is one the call itself created.
C9_ForwardFrame ==
  [][last'.op = "forward" =>
       /\ heap' = heap
       /\ tver' = tver
       /\ inputs' = inputs
       /\ parameters' = parameters
       /\ approximations' = approximations
       /\ last'.res.written \subseteq {Fresh}]_vars

\* a completed call in which the caller's own float mask reached the masking
\* function and was added in place to the scores
C9_Witness ==
  /\ last.op = "forward"
  /\ last.err = "none"
  /\ ~IsNone(last.res.passed_mask)
  /\ last.res.passed_mask.base = <<"attn_mask">>
  /\ \E i \in DOMAIN last.res.ran : last.res.ran[i] = "attn_masking"
  /\ Fresh \in last.res.written

\* the shapes of an attn_mask the call's query and key make valid: tgt_len and
\* src_len are the lengths of query and key as passed, batch is 1 when unbatched
ValidMaskShapes(mod, a) ==
  LET batched == Rank(a.query) = 3
      lenAt == IF batched /\ mod.cfg.batch_first THEN 2 ELSE 1
      L == a.query.shape[lenAt]
      S == a.key.shape[lenAt]
      N == IF ~batched THEN 1
           ELSE IF mod.cfg.batch_first THEN a.query.shape[1] ELSE a.query.shape[2]
  IN  {<<L, S>>, <<N * mod.cfg.num_heads, L, S>>}

MaskErrors ==
  {"shape_check_attn_mask_rank", "shape_check_attn_mask_3d_shape", "attn_mask_dtype",
   "attn_mask_2d_shape", "attn_mask_3d_shape", "attn_mask_rank", "masking_error"}

\* C10: a call whose attn_mask is not 2-D [tgt_len, src_len] or 3-D
\* [batch * num_heads, tgt_len, src_len] raises and never reaches the attention
\* function; a byte mask of a valid shape is not rejected: the call ends as the
\* call with the boolean mask of that shape ends, and when it completes the
\* deprecation warning has been emitted and the mask was converted.
C10_AttnMaskAcceptance ==
  (last.op = "forward" /\ ~IsNone(inputs.attn_mask)) =>
    LET mod == heap[last.target]
        am == inputs.attn_mask
        asBool == ModuleForward(mod, [inputs EXCEPT !.attn_mask.dtype = "bool"], tver, 0)
    IN  /\ am.shape \notin ValidMaskShapes(mod, inputs) =>
             (last.err # "none" /\ ~last.res.called)
        /\ (am.dtype = "uint8" /\ am.shape \in ValidMaskShapes(mod, inputs)) =>
             /\ last.err \notin MaskErrors
             /\ last.err = asBool.err
             /\ last.res.out_shape = asBool.out_shape
             /\ last.res.weights_shape = asBool.weights_shape
             /\ last.res.passed_mask = asBool.passed_mask
             /\ last.err = "none" =>
                  /\ "attn_mask_byte_deprecated" \in last.res.warns
                  /\ \E i \in DOMAIN last.res.ran : last.res.ran[i] = "attn_mask_to_bool"

\* a completed call with a byte mask of valid 2-D shape whose target and source
\* lengths differ
C10_Witness ==
  /\ last.op = "forward"
  /\ last.err = "none"
  /\ ~IsNone(inputs.attn_mask)
  /\ inputs.attn_mask.dtype = "uint8"
  /\ Rank(inputs.attn_mask) = 2
  /\ inputs.attn_mask.shape[1] # inputs.attn_mask.shape[2]
  /\ "attn_mask_byte_deprecated" \in last.res.warns

\* the same call on the same adapter constructed without add_zero_attn
WithoutZeroAttn(a) ==
  ModuleForward([heap[a] EXCEPT !.cfg.add_zero_attn = FALSE], inputs, tver, 0)

\* C11: a call on an adapter with add_zero_attn ends as the same call without
\* it ends; when it completes, the source length the attention function sees and
\* the last dimension of the returned weights are larger by exactly one, with or
\* without bias_k/bias_v, the mask handed to the attention function has that
\* many columns, and the output has the same shape.
C11_ZeroAttention ==
  (last.op = "forward" /\ heap[last.target].cfg.add_zero_attn) =>
    LET ref == WithoutZeroAttn(last.target)
        r == last.res
    IN  /\ r.err = ref.err
        /\ r.err = "none" =>
             /\ r.value.src_len = ref.value.src_len + 1
             /\ r.out_shape = ref.out_shape
             /\ r.has_weights = ref.has_weights
             /\ r.has_weights =>
                  /\ Len(r.weights_shape) = Len(ref.weights_shape)
                  /\ \A i \in DOMAIN r.weights_shape :
                       r.weights_shape[i] =
                         ref.weights_shape[i] + (IF i = Len(r.weights_shape) THEN 1 ELSE 0)
             /\ IsNone(r.passed_mask) = IsNone(ref.passed_mask)
             /\ ~IsNone(r.passed_mask) =>
                  /\ LastDim(r.passed_mask) = r.value.src_len
                  /\ LastDim(ref.passed_mask) = ref.value.src_len

\* a completed call with both masks on an adapter that has add_zero_attn and
\* bias_k/bias_v, returning weights
C11_Witness ==
  /\ last.op = "forward"
  /\ last.err = "none"
  /\ heap[last.target].cfg.add_zero_attn
  /\ heap[last.target].cfg.add_bias_kv
  /\ ~IsNone(inputs.attn_mask)
  /\ ~IsNone(inputs.key_padding_mask)
  /\ last.res.has_weights
  /\ last.res.value.src_len = inputs.key.shape[2] + 2

\* the lengths a call's arguments have: tgt_len, the source length after
\* bias_k/bias_v and zero attention were appended, and the batch size
CallDims(mod, a) ==
  LET batched == Rank(a.query) = 3
      lenAt == IF batched /\ mod.cfg.batch_first THEN 2 ELSE 1
      batchAt == IF mod.cfg.batch_first THEN 1 ELSE 2
  IN  [batched |-> batched,
       L |-> a.query.shape[lenAt],
       S |-> a.key.shape[lenAt]
             + (IF mod.prm[<<"bias_k">>] # NoParam THEN 1 ELSE 0)
             + (IF mod.cfg.add_zero_attn THEN 1 ELSE 0),
       N |-> IF batched THEN a.query.shape[batchAt] ELSE 1]

\* C12: a completed forward call returns, for batched input, the output in the
\* layout of the query and, with need_weights, weights [batch, tgt_len, src_len]
\* when average_attn_weights is set (the sum over the heads divided by
\* num_heads) and [batch, num_heads, tgt_len, src_len] otherwise; for unbatched
\* input both come without the batch axis; without need_weights no weights are
\* returned. src_len is the length of the source axis the attention ran on.
C12_WeightsShape ==
  (last.op = "forward" /\ last.err = "none") =>
    LET mod == heap[last.target]
        d == CallDims(mod, inputs)
        H == mod.cfg.num_heads
        E == mod.cfg.embed_dim
        r == last.res
        averaged == \E i \in DOMAIN r.ran : r.ran[i] = "average_weights"
    IN  /\ r.has_weights = inputs.need_weights
        /\ averaged = (inputs.need_weights /\ inputs.average_attn_weights)
        /\ r.out_shape = IF ~d.batched THEN <<d.L, E>>
                         ELSE IF mod.cfg.batch_first THEN <<d.N, d.L, E>>
                         ELSE <<d.L, d.N, E>>
        /\ inputs.need_weights =>
             r.weights_shape =
               IF d.batched
               THEN IF inputs.average_attn_weights THEN <<d.N, d.L, d.S>>
                    ELSE <<d.N, H, d.L, d.S>>
               ELSE IF inputs.average_attn_weights THEN <<d.L, d.S>>
                    ELSE <<H, d.L, d.S>>
        /\ ~inputs.need_weights => r.weights_shape = <<>>

\* a completed unbatched call that returns the weights per head, of two heads
C12_Witness ==
  /\ last.op = "forward"
  /\ last.err = "none"
  /\ Rank(inputs.query) = 2
  /\ inputs.need_weights
  /\ ~inputs.average_attn_weights
  /\ heap[last.target].cfg.num_heads = 2
  /\ Len(last.res.weights_shape) = 3

\* reading the caller's masks: whether key_padding_mask masks source position s
\* of batch item b, and the element attn_mask holds for head h of batch item b
\* at target position l and source position s
PaddingAt(a, b, s) ==
  LET v == IF Rank(a.key_padding_mask) = 1 THEN a.key_padding_mask.data[s]
           ELSE a.key_padding_mask.data[b][s]
  IN  v \in {"T", "1"}
AttnMaskAt(a, H, b, h, l, s) ==
  IF Rank(a.attn_mask) = 2 THEN a.attn_mask.data[l][s]
  ELSE a.attn_mask.data[(b - 1) * H + h][l][s]
\* the element of the mask handed to the attention function that is added to
\* the score of head h of batch item b at target position l, source position s
PassedAt(pm, H, b, h, l, s) ==
  pm.data[IF Len(pm.data) = 1 THEN 1 ELSE (b - 1) * H + h]
         [IF Len(pm.data[1]) = 1 THEN 1 ELSE l][s]
\* the source length of the call before anything is appended to the keys
KeyLen(mod, a) ==
  a.key.shape[IF Rank(a.query) = 3 /\ mod.cfg.batch_first THEN 2 ELSE 1]
HasStep(r, op) == \E i \in DOMAIN r.ran : r.ran[i] = op

\* C13: in a completed call with a key_padding_mask, the mask handed to the
\* attention function holds the mask-fill value at source position s, for every
\* head and target position of batch item b, wherever key_padding_mask[b][s] is
\* set; elsewhere it is the logical OR with a boolean (or byte) attn_mask, the
\* unchanged additive value of a floating attn_mask, and nothing masked when no
\* attn_mask was given.
C13_KeyPaddingMerge ==
  (last.op = "forward" /\ last.err = "none" /\ ~IsNone(inputs.key_padding_mask)) =>
    LET mod == heap[last.target]
        d == CallDims(mod, inputs)
        H == mod.cfg.num_heads
        fill == mod.fns.attn_mask_value
        am == inputs.attn_mask
        pm == last.res.passed_mask
    IN  /\ ~IsNone(pm)
        /\ pm.shape = <<d.N * H, IF IsNone(am) THEN 1 ELSE d.L, d.S>>
        /\ HasStep(last.res, "logical_or") = (am.dtype \in {"bool", "uint8"})
        /\ HasStep(last.res, "masked_fill") = (am.dtype = "float")
        /\ \A b \in 1..d.N, h \in 1..H, l \in 1..d.L, s \in 1..KeyLen(mod, inputs) :
             PassedAt(pm, H, b, h, l, s) =
               IF PaddingAt(inputs, b, s) THEN fill
               ELSE IF IsNone(am) THEN "0"
               ELSE IF am.dtype = "float" THEN AttnMaskAt(inputs, H, b, h, l, s)
               ELSE IF AttnMaskAt(inputs, H, b, h, l, s) \in {"T", "1"} THEN fill
               ELSE "0"

\* a completed call on two heads and two batch items where the padding mask
\* masks a position of the second item only and a 3-D float attn_mask holds an
\* additive value
C13_Witness ==
  /\ last.op = "forward"
  /\ last.err = "none"
  /\ heap[last.target].cfg.num_heads = 2
  /\ inputs.key_padding_mask.dtype = "bool"
  /\ Rank(inputs.key_padding_mask) = 2
  /\ Len(inputs.key_padding_mask.data) = 2
  /\ \E s \in DOMAIN inputs.key_padding_mask.data[2] :
       /\ inputs.key_padding_mask.data[2][s] = "T"
       /\ inputs.key_padding_mask.data[1][s] = "F"
  /\ inputs.attn_mask.dtype = "float"
  /\ Rank(inputs.attn_mask) = 3
  /\ \E i \in DOMAIN inputs.attn_mask.data :
       \E l \in DOMAIN inputs.attn_mask.data[i] :
         \E s \in DOMAIN inputs.attn_mask.data[i][l] :
           inputs.attn_mask.data[i][l][s] = "x"

\* C14: the mask a forward call hands to the attention function is absent or
\* floating, never boolean or byte, for every combination of attn_mask (absent,
\* boolean, byte, floating) and key_padding_mask (absent, boolean, byte); it is
\* absent exactly when both were; and when attn_mask was not floating, every
\* position holds 0 where neither mask is set and the mask-fill value where one
\* is.
C14_MaskFinalization ==
  (last.op = "forward" /\ last.res.called) =>
    LET mod == heap[last.target]
        d == CallDims(mod, inputs)
        H == mod.cfg.num_heads
        fill == mod.fns.attn_mask_value
        am == inputs.attn_mask
        kpm == inputs.key_padding_mask
        pm == last.res.passed_mask
    IN  /\ pm.dtype \in {"none", "float"}
        /\ IsNone(pm) = (IsNone(am) /\ IsNone(kpm))
        /\ (~IsNone(pm) /\ am.dtype # "float") =>
             /\ HasStep(last.res, "attn_mask_to_float")
             /\ \A b \in 1..d.N, h \in 1..H, l \in 1..d.L, s \in 1..d.S :
                  PassedAt(pm, H, b, h, l, s) =
                    IF /\ s <= KeyLen(mod, inputs)
                       /\ \/ ~IsNone(kpm) /\ PaddingAt(inputs, b, s)
                          \/ ~IsNone(am) /\ AttnMaskAt(inputs, H, b, h, l, s) \in {"T", "1"}
                    THEN fill ELSE "0"
        /\ (~IsNone(pm) /\ am.dtype = "float") =>
             ~HasStep(last.res, "attn_mask_to_float")

\* a completed call with a byte attn_mask that masks a cell and a byte
\* key_padding_mask that masks a position, on an adapter that appends bias_k and
\* a zero position
C14_Witness ==
  /\ last.op = "forward"
  /\ last.err = "none"
  /\ heap[last.target].cfg.add_zero_attn
  /\ heap[last.target].cfg.add_bias_kv
  /\ inputs.attn_mask.dtype = "uint8"
  /\ inputs.key_padding_mask.dtype = "uint8"
  /\ Rank(inputs.attn_mask) = 2
  /\ Rank(inputs.key_padding_mask) = 2
  /\ \E l \in DOMAIN inputs.attn_mask.data :
       \E s \in DOMAIN inputs.attn_mask.data[l] : inputs.attn_mask.data[l][s] = "1"
  /\ \E b \in DOMAIN inputs.key_padding_mask.data :
       \E s \in DOMAIN inputs.key_padding_mask.data[b] :
         inputs.key_padding_mask.data[b][s] = "1"
  /\ last.res.passed_mask.dtype = "float"

====
